---- MODULE Spec2Model ----
(***************************************************************************)
(* Conditional-deployment control loop of the SageMaker MLOps pipeline:    *)
(* PipelineConfig (pipeline/config.py), the command line orchestrator      *)
(* (scripts/run_pipeline.py), the training gate (pipeline/training.py) and *)
(* the DeploymentPipeline state machine (pipeline/deployment.py).          *)
(*                                                                         *)
(* Accuracies and thresholds are fractions k / MaxLevel, represented by    *)
(* the integer k; a threshold outside [0,1] is a k < 0 or a k > MaxLevel.  *)
(* Endpoint names are the second-resolution timestamps they are built      *)
(* from, so an endpoint name is the clock value at which deploy_model was  *)
(* entered.  The remote SageMaker service is the variable endpoints plus   *)
(* nondeterministic faults of each remote call.                            *)
(***************************************************************************)
EXTENDS Integers, Sequences, FiniteSets, TLC

\* ------------------------------------------------------------- bounds
MaxLevel == 2        \* accuracy 1.0; levels 0..MaxLevel stand for k/MaxLevel
MaxClock == 3        \* clock readings 1..MaxClock, also the endpoint names
MaxRuns == 2         \* deployment runs per DeploymentPipeline instance
NumCases == 3        \* reference cases of get_test_data that are run
MaxRequests == 3     \* requests the load test gets through before its deadline
MaxOrchestrators == 2  \* command line processes that deploy at the same time
MaxRollbackCalls == 2        \* invocations of _rollback_deployment in a row
MaxJobs == 3                 \* training jobs in one answer of list_training_jobs

\* ------------------------------------------------------------- constants
MaxAvgLatencyMs == 1000      \* testing.py:396, the ceiling of the average latency

\* ------------------------------------------------------------- domains
None == 0            \* Python None for an endpoint name (names are 1..MaxClock)
One == MaxLevel      \* the level that stands for 1.0
Levels == 0..MaxLevel
ThresholdValues == (0 - 1)..(MaxLevel + 1)
EndpointNames == 1..MaxClock
EndpointStatuses == {"absent", "InService", "Failed"}
Modes == {"complete", "training", "deployment", "testing"}
JobNames == {"iris-classifier-job", "other-job"}
Orchestrators == 1..MaxOrchestrators
\* The classes of the iris model, and the expected_class of the reference
\* cases of get_test_data in their order.
Classes == {0, 1, 2}
ExpectedClasses == <<0, 0, 1, 1, 2, 2, 1, 2>>
\* What invoke_endpoint does with one reference case: it answers with a class
\* or raises.
Raises == 0 - 1
Responses == Classes \cup {Raises}
\* Latencies of one request of the load test, in milliseconds.
RequestLatencies == {500, 1500}
\* rollback_results = None (deployment.py:253): _rollback_deployment not called
NoRollbackResults == [status |-> "None", detail |-> "none"]

VARIABLES
    \* PipelineConfig: class attributes (read from the environment) and the
    \* attributes seen through the instance handed to the pipelines
    cls_target, cls_min, cfg_target, cfg_min, auto_deploy, rollback_on_failure,
    \* scripts/run_pipeline.py main()
    mode, cli_pc, exit_code, train_accuracy, train_should_deploy, train_reason,
    testing_status, stages_started,
    \* remote service
    endpoints, now,
    \* DeploymentPipeline instance fields
    current_endpoint, previous_endpoint,
    \* one run of run_deployment_pipeline / deploy_model
    dp_pc, runs, training_job_name, should_deploy, gate_level, accuracy,
    eval_error, endpoint_name, provisioned, test_status, deploy_status,
    rollback_results, pipeline_status, skip_reason, notifications,
    \* bookkeeping of the run, read by the properties only
    gate_evaluated, snapshot_taken, pointer_at_start, pointer_writes,
    \* TestingPipeline.run_comprehensive_tests on one endpoint: what the
    \* endpoint answers to each reference case, and the locals of the suite
    responses, suite_pc, health_status, case_index, prediction_results,
    correct_predictions, prediction_accuracy, successful_requests,
    failed_requests, request_times, overall_status, issues,
    \* command line processes that run deploy_model side by side, each with a
    \* DeploymentPipeline instance of its own
    orch_pc, orch_endpoint_name, orch_previous_endpoint, orch_current_endpoint,
    \* a program that holds a DeploymentPipeline instance and invokes
    \* _rollback_deployment on it: one record per invocation
    rollback_calls,
    \* a call of get_latest_training_job on its own: what list_training_jobs
    \* answers, and what the call returned
    job_listing, latest_job,
    \* the FinalMetricDataList of the training job that a run evaluates, as
    \* the dict final_metrics of check_deployment_criteria
    final_metrics

config_vars == <<cls_target, cls_min, cfg_target, cfg_min, auto_deploy,
                 rollback_on_failure>>
cli_vars == <<mode, cli_pc, exit_code, train_accuracy, train_should_deploy,
              train_reason, testing_status, stages_started>>
remote_vars == <<endpoints, now>>
instance_vars == <<current_endpoint, previous_endpoint>>
gate_vars == <<should_deploy, gate_level, accuracy, eval_error>>
run_vars == <<dp_pc, runs, training_job_name, endpoint_name, provisioned,
              test_status, deploy_status, rollback_results, pipeline_status,
              skip_reason, notifications, gate_evaluated, snapshot_taken,
              pointer_at_start, pointer_writes>>
suite_vars == <<responses, suite_pc, health_status, case_index,
                prediction_results, correct_predictions, prediction_accuracy,
                successful_requests, failed_requests, request_times,
                overall_status, issues>>
orch_vars == <<orch_pc, orch_endpoint_name, orch_previous_endpoint,
               orch_current_endpoint>>
lookup_vars == <<job_listing, latest_job, final_metrics>>
vars == <<config_vars, cli_vars, remote_vars, instance_vars, gate_vars, run_vars,
          suite_vars, orch_vars, rollback_calls, lookup_vars>>

\* ------------------------------------------------------------- config.py
\* Fault variant of validate: the order of the two thresholds is not compared.
ValidateThresholds_NoOrderCheck(target, minimum) ==
    IF target < 0 \/ target > One THEN "ACCURACY_THRESHOLD must be between 0 and 1"
    ELSE IF minimum < 0 \/ minimum > One THEN "MINIMUM_ACCURACY must be between 0 and 1"
    ELSE "ok"

\* PipelineConfig.validate: a classmethod, so it reads the class attributes.
\* "ok" stands for `return True`, the other values for the ValueError raised.
ValidateThresholds(target, minimum) ==
    IF target < 0 \/ target > One THEN "ACCURACY_THRESHOLD must be between 0 and 1"
    ELSE IF minimum < 0 \/ minimum > One THEN "MINIMUM_ACCURACY must be between 0 and 1"
    ELSE IF target < minimum THEN "ACCURACY_THRESHOLD must be >= MINIMUM_ACCURACY"
    ELSE "ok"

Validate == ValidateThresholds(cls_target, cls_min)

\* ------------------------------------------------------------- the gates
\* Fault variant of the gate: the comparison with the target is strict.
GateBranch_Strict(acc, target, minimum) ==
    IF acc > target THEN [deploy |-> TRUE, level |-> "info"]
    ELSE IF acc >= minimum THEN [deploy |-> FALSE, level |-> "warning"]
    ELSE [deploy |-> FALSE, level |-> "error"]

\* DeploymentPipeline.check_deployment_criteria, the three-way branch: the
\* returned should_deploy and the level of the line it logs.
GateBranch(acc, target, minimum) ==
    IF acc >= target THEN [deploy |-> TRUE, level |-> "info"]
    ELSE IF acc >= minimum THEN [deploy |-> FALSE, level |-> "warning"]
    ELSE [deploy |-> FALSE, level |-> "error"]

\* Fault variant of the lookup: validation_accuracy is looked up first.
MetricAccuracy_ValidationFirst(has_acc, acc, has_val, val) ==
    IF has_val THEN val ELSE IF has_acc THEN acc ELSE 0

\* final_metrics.get('accuracy', final_metrics.get('validation_accuracy', 0.0))
MetricAccuracy(has_acc, acc, has_val, val) ==
    IF has_acc THEN acc ELSE IF has_val THEN val ELSE 0

\* TrainingPipeline.should_deploy: (should_deploy, reason); the reason is
\* named by its leading marker.
ShouldDeploy(acc, target, minimum) ==
    IF acc >= target THEN [deploy |-> TRUE, reason |-> "meets deployment threshold"]
    ELSE IF acc >= minimum THEN [deploy |-> FALSE, reason |-> "meets minimum but below optimal"]
    ELSE [deploy |-> FALSE, reason |-> "below minimum threshold"]

\* ------------------------------------------------------------- remote reads
\* DeploymentPipeline.get_current_production_endpoint on a listing that is
\* sorted by creation time, newest first: the first InService endpoint.
InServiceNames(eps) == {e \in EndpointNames : eps[e] = "InService"}

GetCurrentProductionEndpoint(eps) ==
    IF InServiceNames(eps) = {} THEN None
    ELSE CHOOSE e \in InServiceNames(eps) : \A f \in InServiceNames(eps) : f <= e

\* DeploymentPipeline.get_latest_training_job on a listing (newest first) of
\* [name, status] records; "" stands for None.
HasPrefix(name) == name = "iris-classifier-job"

RECURSIVE FirstJob(_, _)
FirstJob(listing, prefixed) ==
    IF listing = <<>> THEN ""
    ELSE IF Head(listing).status = "Completed"
            /\ (~prefixed \/ HasPrefix(Head(listing).name))
         THEN Head(listing).name
         ELSE FirstJob(Tail(listing), prefixed)

\* Fault variant of the search: there is no second pass over the listing.
GetLatestTrainingJob_PrefixOnly(listing) == FirstJob(listing, TRUE)

GetLatestTrainingJob(listing) ==
    IF FirstJob(listing, TRUE) # "" THEN FirstJob(listing, TRUE)
    ELSE FirstJob(listing, FALSE)

JobRecords == [name : JobNames, status : {"Completed", "Failed"}]
JobListings == {<<>>} \cup {<<a>> : a \in JobRecords}
                 \cup {<<a, b>> : a \in JobRecords, b \in JobRecords}

\* ------------------------------------------------------------- Init
\* The locals of one run_deployment_pipeline call before its first statement.
\* The results of the previous gate evaluation (gate_vars) are kept until the
\* next evaluation overwrites them.
FreshRun ==
    /\ endpoint_name' = None
    /\ provisioned' = 0
    /\ test_status' = "none"
    /\ deploy_status' = "none"
    /\ rollback_results' = NoRollbackResults
    /\ pipeline_status' = "none"
    /\ skip_reason' = "none"
    /\ notifications' = <<>>
    /\ gate_evaluated' = FALSE
    /\ snapshot_taken' = FALSE
    /\ pointer_at_start' = current_endpoint
    /\ pointer_writes' = 0

\* No TestingPipeline runs: the locals of run_comprehensive_tests do not exist.
SuiteIdle ==
    /\ responses = <<>>
    /\ suite_pc = "idle"
    /\ health_status = "none"
    /\ case_index = 0
    /\ prediction_results = <<>>
    /\ correct_predictions = 0
    /\ prediction_accuracy = [num |-> 0, den |-> 1]
    /\ successful_requests = 0
    /\ failed_requests = 0
    /\ request_times = <<>>
    /\ overall_status = "none"
    /\ issues = <<>>

\* No second process: every orchestrator is before deploy_model, with the
\* fields DeploymentPipeline.__init__ sets.
OrchIdle ==
    /\ orch_pc = [p \in Orchestrators |-> "idle"]
    /\ orch_endpoint_name = [p \in Orchestrators |-> None]
    /\ orch_previous_endpoint = [p \in Orchestrators |-> None]
    /\ orch_current_endpoint = [p \in Orchestrators |-> None]

\* The environment sets the class attributes (config.py:15-16, 34-35); the
\* caller is run_pipeline.py in one of its modes or a program that drives a
\* DeploymentPipeline instance itself ("library") after PipelineConfig.validate
\* accepted its configuration.  One endpoint of the model family may be
\* serving from before; DeploymentPipeline.__init__ clears both endpoint
\* fields.
\* _rollback_deployment is invoked by the handler of deploy_model only.
NoRollbackCalls == rollback_calls = <<>>

\* No call of get_latest_training_job on its own.
NoLookup ==
    /\ job_listing = [fault |-> FALSE, jobs |-> <<>>]
    /\ latest_job = "unset"
    /\ final_metrics = <<>>

Init ==
    /\ cls_target \in ThresholdValues
    /\ cls_min \in ThresholdValues
    /\ cfg_target = cls_target
    /\ cfg_min = cls_min
    /\ auto_deploy \in BOOLEAN
    /\ rollback_on_failure \in BOOLEAN
    /\ mode \in Modes \cup {"library"}
    /\ mode = "library" => Validate = "ok"
    /\ cli_pc = IF mode = "library" THEN "none" ELSE "start"
    /\ exit_code = "running"
    /\ train_accuracy = 0
    /\ train_should_deploy = "not_run"
    /\ train_reason = "none"
    /\ testing_status = "not_run"
    /\ stages_started = {}
    /\ endpoints \in {eps \in [EndpointNames -> {"absent", "InService"}] :
                        \A e \in EndpointNames : e > 1 => eps[e] = "absent"}
    /\ now = 2
    /\ current_endpoint = None
    /\ previous_endpoint = None
    /\ dp_pc = "idle"
    /\ runs = 0
    /\ should_deploy = FALSE
    /\ gate_level = "none"
    /\ accuracy = 0
    /\ eval_error = FALSE
    /\ gate_evaluated = FALSE
    /\ training_job_name = ""
    /\ endpoint_name = None
    /\ provisioned = 0
    /\ test_status = "none"
    /\ deploy_status = "none"
    /\ rollback_results = NoRollbackResults
    /\ pipeline_status = "none"
    /\ skip_reason = "none"
    /\ notifications = <<>>
    /\ snapshot_taken = FALSE
    /\ pointer_at_start = None
    /\ pointer_writes = 0
    /\ SuiteIdle
    /\ OrchIdle
    /\ NoRollbackCalls
    /\ NoLookup

\* ------------------------------------------------------------- run_pipeline.py
\* main(), lines 47-66: the overrides are set on the instance when the parsed
\* value is truthy, then config.validate() runs; a ValueError exits with 1.
ArgOverride(given, value, current) ==
    IF given /\ value # 0 THEN value ELSE current

ParseAndValidate ==
    /\ cli_pc = "start"
    /\ \E has_t \in BOOLEAN, t \in ThresholdValues,
          has_m \in BOOLEAN, m \in ThresholdValues :
          /\ cfg_target' = ArgOverride(has_t, t, cfg_target)
          /\ cfg_min' = ArgOverride(has_m, m, cfg_min)
    /\ IF Validate = "ok"
       THEN /\ cli_pc' = "training"
            /\ exit_code' = exit_code
       ELSE /\ cli_pc' = "exit"
            /\ exit_code' = "config_error_1"
    /\ UNCHANGED <<cls_target, cls_min, auto_deploy, rollback_on_failure, mode,
                   train_accuracy, train_should_deploy, train_reason,
                   testing_status, stages_started, remote_vars, instance_vars,
                   gate_vars, run_vars>>
    /\ UNCHANGED <<suite_vars, orch_vars, rollback_calls, lookup_vars>>

\* main(), lines 81-94, with TrainingPipeline.run_training_pipeline: the local
\* model's accuracy goes through should_deploy; a fault inside the training
\* pipeline is re-raised and main returns 1.
TrainingPhase ==
    /\ cli_pc = "training"
    /\ IF mode \in {"complete", "training"}
       THEN /\ stages_started' = stages_started \cup {"training"}
            /\ \/ \E acc \in Levels :
                    /\ train_accuracy' = acc
                    /\ train_should_deploy' =
                         IF ShouldDeploy(acc, cfg_target, cfg_min).deploy
                         THEN "yes" ELSE "no"
                    /\ train_reason' = ShouldDeploy(acc, cfg_target, cfg_min).reason
                    /\ \/ /\ cli_pc' = "deployment"
                          /\ exit_code' = exit_code
                       \/ \* train_sagemaker_model faults
                          /\ ShouldDeploy(acc, cfg_target, cfg_min).deploy
                          /\ auto_deploy
                          /\ cli_pc' = "exit"
                          /\ exit_code' = "failed_1"
               \/ \* prepare_data, train_local_model or evaluate_model faults
                  /\ cli_pc' = "exit"
                  /\ exit_code' = "failed_1"
                  /\ UNCHANGED <<train_accuracy, train_should_deploy, train_reason>>
       ELSE /\ cli_pc' = "deployment"
            /\ UNCHANGED <<exit_code, train_accuracy, train_should_deploy,
                           train_reason, stages_started>>
    /\ UNCHANGED <<config_vars, mode, testing_status, remote_vars, instance_vars,
                   gate_vars, run_vars>>
    /\ UNCHANGED <<suite_vars, orch_vars, rollback_calls, lookup_vars>>

\* ------------------------------------------------------------- deployment.py
\* Entry of run_deployment_pipeline (lines 353-362) without a job name:
\* get_latest_training_job reads the listing (a fault yields None), and None
\* raises ValueError into the handler of lines 402-414.
EnterRun(job) ==
    /\ dp_pc' = IF job = "" THEN "find_job" ELSE "check"
    /\ runs' = runs + 1
    /\ FreshRun
    /\ training_job_name' = job

PipelineError ==
    /\ pipeline_status' = "failed"
    /\ notifications' = Append(notifications, "error")
    /\ dp_pc' = "done"

FindJob ==
    /\ dp_pc = "find_job"
    /\ \E listing \in JobListings, fault \in BOOLEAN :
         LET job == IF fault THEN "" ELSE GetLatestTrainingJob(listing) IN
         IF job = ""
         THEN /\ PipelineError
              /\ UNCHANGED training_job_name
         ELSE /\ training_job_name' = job
              /\ dp_pc' = "check"
              /\ UNCHANGED <<pipeline_status, notifications>>
    /\ UNCHANGED <<config_vars, cli_vars, remote_vars, instance_vars, gate_vars,
                   runs, endpoint_name, provisioned, test_status, deploy_status,
                   rollback_results, skip_reason, gate_evaluated, snapshot_taken,
                   pointer_at_start, pointer_writes>>
    /\ UNCHANGED <<suite_vars, orch_vars, rollback_calls, lookup_vars>>

\* What check_deployment_criteria returns and logs (lines 118-135): the
\* branch of the accuracy, or (False, {error}) after a fault of the remote read.
GateResult(fault, acc) ==
    IF fault THEN [deploy |-> FALSE, level |-> "error", accuracy |-> 0, error |-> TRUE]
    ELSE [deploy |-> GateBranch(acc, cfg_target, cfg_min).deploy,
          level |-> GateBranch(acc, cfg_target, cfg_min).level,
          accuracy |-> acc, error |-> FALSE]

\* Fault variant of the gate: it also takes the rollback snapshot.
CheckDeploymentCriteria_TakesSnapshot ==
    /\ dp_pc = "check"
    /\ \E fault \in BOOLEAN, has_acc \in BOOLEAN, acc \in Levels,
          has_val \in BOOLEAN, val \in Levels :
         LET r == GateResult(fault, MetricAccuracy(has_acc, acc, has_val, val)) IN
         /\ should_deploy' = r.deploy
         /\ gate_level' = r.level
         /\ accuracy' = r.accuracy
         /\ eval_error' = r.error
    /\ gate_evaluated' = TRUE
    /\ previous_endpoint' = GetCurrentProductionEndpoint(endpoints)
    /\ dp_pc' = "decide"
    /\ UNCHANGED <<config_vars, cli_vars, remote_vars, current_endpoint, runs,
                   training_job_name, endpoint_name, provisioned, test_status,
                   deploy_status, rollback_results, pipeline_status, skip_reason,
                   notifications, snapshot_taken, pointer_at_start,
                   pointer_writes>>
    /\ UNCHANGED <<suite_vars, orch_vars, rollback_calls, lookup_vars>>

\* check_deployment_criteria (lines 84-135) for one answer of
\* describe_training_job, a fault or the accuracy read out of the metrics:
\* the three-way branch and what is returned.
EvaluateCriteria(fault, acc) ==
    /\ dp_pc = "check"
    /\ LET r == GateResult(fault, acc) IN
         /\ should_deploy' = r.deploy
         /\ gate_level' = r.level
         /\ accuracy' = r.accuracy
         /\ eval_error' = r.error
    /\ gate_evaluated' = TRUE
    /\ dp_pc' = "decide"
    /\ UNCHANGED <<config_vars, cli_vars, remote_vars, instance_vars, runs,
                   training_job_name, endpoint_name, provisioned, test_status,
                   deploy_status, rollback_results, pipeline_status, skip_reason,
                   notifications, snapshot_taken, pointer_at_start,
                   pointer_writes>>
    /\ UNCHANGED <<suite_vars, orch_vars, rollback_calls, lookup_vars>>

\* check_deployment_criteria (lines 84-135): describe_training_job, the
\* accuracy out of FinalMetricDataList, the three-way branch.
CheckDeploymentCriteria ==
    \E fault \in BOOLEAN, has_acc \in BOOLEAN, acc \in Levels,
       has_val \in BOOLEAN, val \in Levels :
        EvaluateCriteria(fault, MetricAccuracy(has_acc, acc, has_val, val))

\* The reason of the skip notification (line 373).
SkipReason(deploy) ==
    IF ~deploy THEN "Deployment criteria not met" ELSE "Auto-deploy disabled"

\* Fault variant of the decision: the gate's answer is not consulted.
Decide_IgnoresGate ==
    /\ dp_pc = "decide"
    /\ IF auto_deploy
       THEN /\ endpoint_name' = now
            /\ dp_pc' = "describe"
            /\ UNCHANGED <<skip_reason, notifications>>
       ELSE /\ skip_reason' = SkipReason(should_deploy)
            /\ notifications' = Append(notifications, "skipped")
            /\ dp_pc' = "compile"
            /\ UNCHANGED endpoint_name
    /\ UNCHANGED <<config_vars, cli_vars, remote_vars, instance_vars, gate_vars,
                   runs, training_job_name, provisioned, test_status,
                   deploy_status, rollback_results, pipeline_status,
                   gate_evaluated, snapshot_taken, pointer_at_start,
                   pointer_writes>>
    /\ UNCHANGED <<suite_vars, orch_vars, rollback_calls, lookup_vars>>

\* Fault variant of the decision: the auto-deploy switch is not consulted.
Decide_IgnoresAutoDeploy ==
    /\ dp_pc = "decide"
    /\ IF should_deploy
       THEN /\ endpoint_name' = now
            /\ dp_pc' = "describe"
            /\ UNCHANGED <<skip_reason, notifications>>
       ELSE /\ skip_reason' = SkipReason(should_deploy)
            /\ notifications' = Append(notifications, "skipped")
            /\ dp_pc' = "compile"
            /\ UNCHANGED endpoint_name
    /\ UNCHANGED <<config_vars, cli_vars, remote_vars, instance_vars, gate_vars,
                   runs, training_job_name, provisioned, test_status,
                   deploy_status, rollback_results, pipeline_status,
                   gate_evaluated, snapshot_taken, pointer_at_start,
                   pointer_writes>>
    /\ UNCHANGED <<suite_vars, orch_vars, rollback_calls, lookup_vars>>

\* run_deployment_pipeline lines 367-382: deploy_model is entered (its
\* endpoint name is built from the clock, lines 170-172) or the skip
\* notification is sent.
Decide ==
    /\ dp_pc = "decide"
    /\ IF should_deploy /\ auto_deploy
       THEN /\ endpoint_name' = now
            /\ dp_pc' = "describe"
            /\ UNCHANGED <<skip_reason, notifications>>
       ELSE /\ skip_reason' = SkipReason(should_deploy)
            /\ notifications' = Append(notifications, "skipped")
            /\ dp_pc' = "compile"
            /\ UNCHANGED endpoint_name
    /\ UNCHANGED <<config_vars, cli_vars, remote_vars, instance_vars, gate_vars,
                   runs, training_job_name, provisioned, test_status,
                   deploy_status, rollback_results, pipeline_status,
                   gate_evaluated, snapshot_taken, pointer_at_start, pointer_writes>>
    /\ UNCHANGED <<suite_vars, orch_vars, rollback_calls, lookup_vars>>

\* deploy_model lines 181-201: describe_training_job, sagemaker.Session and
\* SKLearnModel; a fault goes to the handler of line 246.
DescribeJob ==
    /\ dp_pc = "describe"
    /\ \E fault \in BOOLEAN : dp_pc' = IF fault THEN "failed" ELSE "snapshot"
    /\ UNCHANGED <<config_vars, cli_vars, remote_vars, instance_vars, gate_vars,
                   runs, training_job_name, endpoint_name, provisioned,
                   test_status, deploy_status, rollback_results, pipeline_status,
                   skip_reason, notifications, gate_evaluated, snapshot_taken, pointer_at_start,
                   pointer_writes>>
    /\ UNCHANGED <<suite_vars, orch_vars, rollback_calls, lookup_vars>>

\* deploy_model lines 203-204: previous_endpoint is what
\* get_current_production_endpoint returns; its own handler turns a fault of
\* list_endpoints into None.
Snapshot ==
    /\ dp_pc = "snapshot"
    /\ \E fault \in BOOLEAN :
         previous_endpoint' =
             IF fault THEN None ELSE GetCurrentProductionEndpoint(endpoints)
    /\ snapshot_taken' = TRUE
    /\ dp_pc' = "provision"
    /\ UNCHANGED <<config_vars, cli_vars, remote_vars, current_endpoint,
                   gate_vars, runs, training_job_name, endpoint_name,
                   provisioned, test_status, deploy_status, rollback_results,
                   pipeline_status, skip_reason, notifications,
                   gate_evaluated,                   pointer_at_start, pointer_writes>>
    /\ UNCHANGED <<suite_vars, orch_vars, rollback_calls, lookup_vars>>

\* Fault variant of the provisioning: a creation that failed without leaving
\* an endpoint is attempted again.
Provision_RetriesOnFailure ==
    /\ dp_pc = "provision"
    /\ provisioned' = provisioned + 1
    /\ IF endpoints[endpoint_name] # "absent"
       THEN /\ dp_pc' = "failed"
            /\ UNCHANGED endpoints
       ELSE \/ /\ endpoints' = [endpoints EXCEPT ![endpoint_name] = "InService"]
               /\ dp_pc' = "test"
            \/ /\ endpoints' = [endpoints EXCEPT ![endpoint_name] = "Failed"]
               /\ dp_pc' = "failed"
            \/ /\ UNCHANGED endpoints
               /\ dp_pc' = "provision"
    /\ UNCHANGED <<config_vars, cli_vars, now, instance_vars, gate_vars, runs,
                   training_job_name, endpoint_name, test_status, deploy_status,
                   rollback_results, pipeline_status, skip_reason, notifications,
                   gate_evaluated, snapshot_taken, pointer_at_start, pointer_writes>>
    /\ UNCHANGED <<suite_vars, orch_vars, rollback_calls, lookup_vars>>

\* deploy_model lines 206-213: model.deploy(..., wait=True) returns once the
\* endpoint is InService and raises otherwise; a name that is taken is
\* refused by the service, a failed creation may leave a Failed endpoint.
Provision ==
    /\ dp_pc = "provision"
    /\ provisioned' = provisioned + 1
    /\ IF endpoints[endpoint_name] # "absent"
       THEN /\ dp_pc' = "failed"
            /\ UNCHANGED endpoints
       ELSE \/ /\ endpoints' = [endpoints EXCEPT ![endpoint_name] = "InService"]
               /\ dp_pc' = "test"
            \/ /\ endpoints' = [endpoints EXCEPT ![endpoint_name] = "Failed"]
               /\ dp_pc' = "failed"
            \/ /\ UNCHANGED endpoints
               /\ dp_pc' = "failed"
    /\ UNCHANGED <<config_vars, cli_vars, now, instance_vars, gate_vars, runs,
                   training_job_name, endpoint_name, test_status, deploy_status,
                   rollback_results, pipeline_status, skip_reason, notifications,
                   gate_evaluated, snapshot_taken, pointer_at_start, pointer_writes>>
    /\ UNCHANGED <<suite_vars, orch_vars, rollback_calls, lookup_vars>>

\* _test_endpoint (lines 269-307): one invoke_endpoint; every fault is caught
\* and returned as {'status': 'failed'}.  An endpoint that is not InService
\* cannot answer.
TestEndpoint ==
    /\ dp_pc = "test"
    /\ \/ /\ endpoints[endpoint_name] = "InService"
          /\ test_status' = "success"
       \/ test_status' = "failed"
    /\ dp_pc' = "commit"
    /\ UNCHANGED <<config_vars, cli_vars, remote_vars, instance_vars, gate_vars,
                   runs, training_job_name, endpoint_name, provisioned,
                   deploy_status, rollback_results, pipeline_status, skip_reason,
                   notifications, gate_evaluated, snapshot_taken, pointer_at_start,
                   pointer_writes>>
    /\ UNCHANGED <<suite_vars, orch_vars, rollback_calls, lookup_vars>>

\* Fault variant of the commit: the pointer is set to the previous endpoint.
Commit_KeepsPointer ==
    /\ dp_pc = "commit"
    /\ current_endpoint' = previous_endpoint
    /\ pointer_writes' = pointer_writes + 1
    /\ deploy_status' = "success"
    /\ notifications' = Append(notifications, "deployment_success")
    /\ dp_pc' = "compile"
    /\ UNCHANGED <<config_vars, cli_vars, remote_vars, previous_endpoint,
                   gate_vars, runs, training_job_name, endpoint_name,
                   provisioned, test_status, rollback_results, pipeline_status,
                   skip_reason, gate_evaluated, snapshot_taken,
                   pointer_at_start>>
    /\ UNCHANGED <<suite_vars, orch_vars, rollback_calls, lookup_vars>>

\* deploy_model lines 220-244: the metadata, the assignment of
\* current_endpoint, the success result and its notification.  The result of
\* _test_endpoint is stored, not inspected.
Commit ==
    /\ dp_pc = "commit"
    /\ current_endpoint' = endpoint_name
    /\ pointer_writes' = pointer_writes + 1
    /\ deploy_status' = "success"
    /\ notifications' = Append(notifications, "deployment_success")
    /\ dp_pc' = "compile"
    /\ UNCHANGED <<config_vars, cli_vars, remote_vars, previous_endpoint,
                   gate_vars, runs, training_job_name, endpoint_name,
                   provisioned, test_status, rollback_results, pipeline_status,
                   skip_reason, gate_evaluated, snapshot_taken, pointer_at_start>>
    /\ UNCHANGED <<suite_vars, orch_vars, rollback_calls, lookup_vars>>

\* _rollback_deployment (lines 309-341) for a given previous endpoint:
\* describe_endpoint on it; only a query, no field is assigned.  The result
\* is the returned dict: its 'status' and the key that carries the detail
\* ('rolled_back_to', 'reason' or 'error'); describe_endpoint on a name the
\* service does not know raises.
RollbackDeployment(prev, fault) ==
    IF prev = None THEN [status |-> "no_previous_endpoint", detail |-> "none"]
    ELSE IF fault \/ endpoints[prev] = "absent"
         THEN [status |-> "failed", detail |-> "error"]
    ELSE IF endpoints[prev] = "InService"
         THEN [status |-> "success", detail |-> "rolled_back_to"]
    ELSE [status |-> "failed", detail |-> "reason"]

\* Fault variant of the handler: _rollback_deployment is called whether or not
\* a previous endpoint was recorded.
DeployFailed_AlwaysRollsBack ==
    /\ dp_pc = "failed"
    /\ IF rollback_on_failure
       THEN \E fault \in BOOLEAN :
              rollback_results' = RollbackDeployment(previous_endpoint, fault)
       ELSE rollback_results' = NoRollbackResults
    /\ deploy_status' = "failed"
    /\ notifications' = Append(notifications, "deployment_failure")
    /\ dp_pc' = "compile"
    /\ UNCHANGED <<config_vars, cli_vars, remote_vars, instance_vars, gate_vars,
                   runs, training_job_name, endpoint_name, provisioned,
                   test_status, pipeline_status, skip_reason, gate_evaluated, snapshot_taken,
                   pointer_at_start, pointer_writes>>
    /\ UNCHANGED <<suite_vars, orch_vars, rollback_calls, lookup_vars>>

\* Fault variant of the handler: the endpoint of the failed candidate is
\* deleted once the rollback has been attempted.
DeployFailed_DeletesCandidate ==
    /\ dp_pc = "failed"
    /\ IF rollback_on_failure /\ previous_endpoint # None
       THEN /\ \E fault \in BOOLEAN :
                 rollback_results' = RollbackDeployment(previous_endpoint, fault)
            /\ endpoints' = [endpoints EXCEPT ![endpoint_name] = "absent"]
       ELSE /\ rollback_results' = NoRollbackResults
            /\ UNCHANGED endpoints
    /\ deploy_status' = "failed"
    /\ notifications' = Append(notifications, "deployment_failure")
    /\ dp_pc' = "compile"
    /\ UNCHANGED <<config_vars, cli_vars, now, instance_vars, gate_vars,
                   runs, training_job_name, endpoint_name, provisioned,
                   test_status, pipeline_status, skip_reason, gate_evaluated, snapshot_taken,
                   pointer_at_start, pointer_writes>>
    /\ UNCHANGED <<suite_vars, orch_vars, rollback_calls, lookup_vars>>

\* deploy_model lines 246-267: the handler of every fault of the try block.
DeployFailed ==
    /\ dp_pc = "failed"
    /\ IF rollback_on_failure /\ previous_endpoint # None
       THEN \E fault \in BOOLEAN :
              rollback_results' = RollbackDeployment(previous_endpoint, fault)
       ELSE rollback_results' = NoRollbackResults
    /\ deploy_status' = "failed"
    /\ notifications' = Append(notifications, "deployment_failure")
    /\ dp_pc' = "compile"
    /\ UNCHANGED <<config_vars, cli_vars, remote_vars, instance_vars, gate_vars,
                   runs, training_job_name, endpoint_name, provisioned,
                   test_status, pipeline_status, skip_reason, gate_evaluated, snapshot_taken,
                   pointer_at_start, pointer_writes>>
    /\ UNCHANGED <<suite_vars, orch_vars, rollback_calls, lookup_vars>>

\* run_deployment_pipeline lines 384-400: the results are compiled with
\* pipeline_status 'success' whatever deploy_model returned.
Compile ==
    /\ dp_pc = "compile"
    /\ pipeline_status' = "success"
    /\ dp_pc' = "done"
    /\ UNCHANGED <<config_vars, cli_vars, remote_vars, instance_vars, gate_vars,
                   runs, training_job_name, endpoint_name, provisioned,
                   test_status, deploy_status, rollback_results, skip_reason,
                   notifications, gate_evaluated, snapshot_taken, pointer_at_start,
                   pointer_writes>>
    /\ UNCHANGED <<suite_vars, orch_vars, rollback_calls, lookup_vars>>

\* ------------------------------------------------------------- callers
\* Fault variant of the deployment phase: in 'complete' mode the pipeline is
\* called whatever the training result says.
DeploymentPhase_IgnoresTrainingGate ==
    /\ cli_pc = "deployment"
    /\ dp_pc = "idle"
    /\ IF mode \in {"complete", "deployment"}
       THEN /\ stages_started' = stages_started \cup {"deployment"}
            /\ IF mode = "deployment"
               THEN /\ \E job \in JobNames \cup {""} : EnterRun(job)
                    /\ cli_pc' = "deploying"
               ELSE /\ EnterRun("")
                    /\ cli_pc' = "deploying"
       ELSE /\ cli_pc' = "testing"
            /\ UNCHANGED <<stages_started, run_vars>>
    /\ UNCHANGED <<config_vars, mode, exit_code, train_accuracy,
                   train_should_deploy, train_reason, testing_status,
                   remote_vars, instance_vars, gate_vars>>
    /\ UNCHANGED <<suite_vars, orch_vars, rollback_calls, lookup_vars>>

\* main(), lines 96-108: which call of run_deployment_pipeline the mode and
\* the training result select; "" is the call without a job name.
DeploymentPhase ==
    /\ cli_pc = "deployment"
    /\ dp_pc = "idle"
    /\ IF mode \in {"complete", "deployment"}
       THEN /\ stages_started' = stages_started \cup {"deployment"}
            /\ IF mode = "deployment"
               THEN /\ \E job \in JobNames \cup {""} : EnterRun(job)
                    /\ cli_pc' = "deploying"
               ELSE IF train_should_deploy = "yes"
               THEN /\ EnterRun("")
                    /\ cli_pc' = "deploying"
               ELSE \* deploy_results = {'pipeline_status': 'skipped', ...}
                    /\ pipeline_status' = "skipped"
                    /\ cli_pc' = "report"
                    /\ UNCHANGED <<dp_pc, runs, training_job_name, endpoint_name,
                                   provisioned, test_status, deploy_status,
                                   rollback_results, skip_reason, notifications,
                                   gate_evaluated, snapshot_taken, pointer_at_start,
                                   pointer_writes>>
       ELSE /\ cli_pc' = "testing"
            /\ UNCHANGED <<stages_started, run_vars>>
    /\ UNCHANGED <<config_vars, mode, exit_code, train_accuracy,
                   train_should_deploy, train_reason, testing_status,
                   remote_vars, instance_vars, gate_vars>>
    /\ UNCHANGED <<suite_vars, orch_vars, rollback_calls, lookup_vars>>

\* main(), lines 110-120: run_deployment_pipeline has returned; the report
\* reads deployment_results['endpoint_name'], a key the failed result of
\* deploy_model does not have, and the KeyError ends main with 1.
DeploymentReport ==
    /\ \/ cli_pc = "deploying" /\ dp_pc = "done"
       \/ cli_pc = "report"
    /\ IF deploy_status = "failed"
       THEN cli_pc' = "exit" /\ exit_code' = "failed_1"
       ELSE cli_pc' = "testing" /\ exit_code' = exit_code
    /\ UNCHANGED <<config_vars, mode, train_accuracy, train_should_deploy,
                   train_reason, testing_status, stages_started, remote_vars,
                   instance_vars, gate_vars, run_vars>>
    /\ UNCHANGED <<suite_vars, orch_vars, rollback_calls, lookup_vars>>

\* main(), lines 122-196: the testing phase finds an endpoint (the one just
\* deployed, else the newest InService one) and runs the comprehensive
\* tests on it; their error result lacks the keys the report prints, and
\* every fault ends main with 1.  Without an endpoint the phase is skipped.
TestingPhase ==
    /\ cli_pc = "testing"
    /\ IF mode \in {"complete", "testing"}
       THEN /\ stages_started' = stages_started \cup {"testing"}
            /\ \/ \E st \in {"passed", "warning", "failed", "skipped"} :
                    /\ testing_status' = st
                    /\ exit_code' = "success_0"
               \/ /\ testing_status' = "error"
                  /\ exit_code' = "failed_1"
       ELSE /\ exit_code' = "success_0"
            /\ UNCHANGED <<testing_status, stages_started>>
    /\ cli_pc' = "exit"
    /\ UNCHANGED <<config_vars, mode, train_accuracy, train_should_deploy,
                   train_reason, remote_vars, instance_vars, gate_vars, run_vars>>
    /\ UNCHANGED <<suite_vars, orch_vars, rollback_calls, lookup_vars>>

\* A program that holds one DeploymentPipeline instance and calls
\* run_deployment_pipeline on it, with or without a job name, again and again.
LibraryRun ==
    /\ mode = "library"
    /\ dp_pc \in {"idle", "done"}
    /\ runs < MaxRuns
    /\ \E job \in JobNames \cup {""} : EnterRun(job)
    /\ UNCHANGED <<config_vars, cli_vars, remote_vars, instance_vars, gate_vars>>
    /\ UNCHANGED <<suite_vars, orch_vars, rollback_calls, lookup_vars>>

\* ------------------------------------------------------------- environment
\* The wall clock that datetime.now() reads moves on to the next second.  Only
\* the seconds in which an endpoint name is built differ to the program, so
\* the clock is let move on between two runs on the instance.
Tick ==
    /\ mode = "library"
    /\ dp_pc = "done"
    /\ runs < MaxRuns
    /\ now < MaxClock
    /\ now' = now + 1
    /\ UNCHANGED <<config_vars, cli_vars, endpoints, instance_vars, gate_vars,
                   run_vars>>
    /\ UNCHANGED <<suite_vars, orch_vars, rollback_calls, lookup_vars>>

\* An endpoint of the service stops serving.
EndpointDegrades ==
    /\ \E e \in EndpointNames :
         /\ endpoints[e] = "InService"
         /\ endpoints' = [endpoints EXCEPT ![e] = "Failed"]
    /\ UNCHANGED <<config_vars, cli_vars, now, instance_vars, gate_vars, run_vars>>
    /\ UNCHANGED <<suite_vars, orch_vars, rollback_calls, lookup_vars>>

\* ------------------------------------------------------------- specification
Next ==
    \/ ParseAndValidate
    \/ TrainingPhase
    \/ DeploymentPhase
    \/ DeploymentReport
    \/ TestingPhase
    \/ LibraryRun
    \/ FindJob
    \/ CheckDeploymentCriteria
    \/ Decide
    \/ DescribeJob
    \/ Snapshot
    \/ Provision
    \/ TestEndpoint
    \/ Commit
    \/ DeployFailed
    \/ Compile
    \/ Tick
    \/ EndpointDegrades

Spec == Init /\ [][Next]_vars

\* ------------------------------------------------------------- testing.py
\* A caller outside run_pipeline.py: no command line run, a fresh
\* DeploymentPipeline, no deployment run.
CallerIdle ==
    /\ auto_deploy = TRUE
    /\ rollback_on_failure = TRUE
    /\ mode = "library"
    /\ cli_pc = "none"
    /\ exit_code = "running"
    /\ train_accuracy = 0
    /\ train_should_deploy = "not_run"
    /\ train_reason = "none"
    /\ testing_status = "not_run"
    /\ stages_started = {}
    /\ current_endpoint = None
    /\ previous_endpoint = None
    /\ dp_pc = "idle"
    /\ runs = 0
    /\ should_deploy = FALSE
    /\ gate_level = "none"
    /\ accuracy = 0
    /\ eval_error = FALSE
    /\ gate_evaluated = FALSE
    /\ training_job_name = ""
    /\ endpoint_name = None
    /\ provisioned = 0
    /\ test_status = "none"
    /\ deploy_status = "none"
    /\ rollback_results = NoRollbackResults
    /\ pipeline_status = "none"
    /\ skip_reason = "none"
    /\ notifications = <<>>
    /\ snapshot_taken = FALSE
    /\ pointer_at_start = None
    /\ pointer_writes = 0

pipeline_vars == <<config_vars, cli_vars, remote_vars, instance_vars, gate_vars,
                   run_vars>>

\* Exact fractions num/den with den > 0, for the rates the suite computes and
\* the thresholds it compares them with.
FracLess(a, b) == a.num * b.den < b.num * a.den

\* self.config.MINIMUM_ACCURACY as read by run_comprehensive_tests (line 385)
MinimumAccuracy == [num |-> cfg_min, den |-> MaxLevel]
\* the literal 0.95 of line 391
MinSuccessRate == [num |-> 95, den |-> 100]

\* test_endpoint_predictions line 235
Accuracy(correct, total) ==
    IF total > 0 THEN [num |-> correct, den |-> total] ELSE [num |-> 0, den |-> 1]

\* test_endpoint_performance line 321
SuccessRate(successful, failed) ==
    IF successful + failed > 0
    THEN [num |-> successful, den |-> successful + failed]
    ELSE [num |-> 0, den |-> 1]

RECURSIVE Sum(_)
Sum(times) == IF times = <<>> THEN 0 ELSE Head(times) + Sum(Tail(times))

\* test_endpoint_performance lines 312-318
AvgLatency(times) ==
    IF times # <<>> THEN [num |-> Sum(times), den |-> Len(times)]
    ELSE [num |-> 0, den |-> 1]

\* run_comprehensive_tests lines 374-398: overall_status is assigned by four
\* successive checks, each overwriting what the one before left.
AfterHealth(health) == IF health # "healthy" THEN "failed" ELSE "passed"

AfterAccuracy(status, acc) ==
    IF FracLess(acc, MinimumAccuracy) THEN "failed" ELSE status

AfterSuccessRate(status, rate) ==
    IF FracLess(rate, MinSuccessRate) THEN "warning" ELSE status

AfterLatency(status, avg) ==
    IF FracLess([num |-> MaxAvgLatencyMs, den |-> 1], avg) THEN "warning" ELSE status

OverallStatus(health, acc, rate, avg) ==
    AfterLatency(AfterSuccessRate(AfterAccuracy(AfterHealth(health), acc), rate), avg)

\* The lines appended to issues, in the order of the checks.
Issues(health, acc, rate, avg) ==
    (IF health # "healthy" THEN <<"Endpoint health check failed">> ELSE <<>>)
    \o (IF FracLess(acc, MinimumAccuracy)
        THEN <<"Prediction accuracy below minimum threshold">> ELSE <<>>)
    \o (IF FracLess(rate, MinSuccessRate)
        THEN <<"Performance test success rate below 95%">> ELSE <<>>)
    \o (IF FracLess([num |-> MaxAvgLatencyMs, den |-> 1], avg)
        THEN <<"Average latency above 1 second">> ELSE <<>>)

\* The endpoint_name that run_comprehensive_tests is called with (line 345).
TestedEndpoint == 1

\* A program calls TestingPipeline(config).run_comprehensive_tests(endpoint)
\* with validated thresholds; the endpoint's answers to the reference cases
\* are the input.
InitSuite ==
    /\ cls_target = One
    /\ cls_min \in Levels
    /\ cfg_target = cls_target
    /\ cfg_min = cls_min
    /\ endpoints \in {eps \in [EndpointNames -> EndpointStatuses] :
                        \A e \in EndpointNames :
                            e # TestedEndpoint => eps[e] = "absent"}
    /\ now = 2
    /\ CallerIdle
    /\ OrchIdle
    /\ NoRollbackCalls
    /\ NoLookup
    /\ responses \in {rs \in [1..NumCases -> Responses] :
                        endpoints[TestedEndpoint] # "InService"
                            => \A i \in 1..NumCases : rs[i] = Raises}
    /\ suite_pc = "health"
    /\ health_status = "none"
    /\ case_index = 0
    /\ prediction_results = <<>>
    /\ correct_predictions = 0
    /\ prediction_accuracy = [num |-> 0, den |-> 1]
    /\ successful_requests = 0
    /\ failed_requests = 0
    /\ request_times = <<>>
    /\ overall_status = "none"
    /\ issues = <<>>

\* What test_endpoint_health returns as 'status' (lines 114-160): 'error' when
\* describe_endpoint raises (a transport fault, a name the service does not
\* know) or the description lacks a key the function reads, 'healthy' for
\* InService, 'unhealthy' for any other status.
HealthStatus(fault, status) ==
    IF fault \/ status = "absent" THEN "error"
    ELSE IF status = "InService" THEN "healthy"
    ELSE "unhealthy"

\* test_endpoint_health (lines 102-160) on the tested endpoint.
TestEndpointHealth ==
    /\ suite_pc = "health"
    /\ \E fault \in BOOLEAN :
         health_status' = HealthStatus(fault, endpoints[TestedEndpoint])
    /\ suite_pc' = "predictions"
    /\ UNCHANGED <<pipeline_vars, orch_vars, rollback_calls, lookup_vars,
                   responses, case_index,
                   prediction_results, correct_predictions, prediction_accuracy,
                   successful_requests, failed_requests, request_times,
                   overall_status, issues>>

\* One result of individual_results; a failed case has no 'is_correct' key,
\* which is FALSE here.
CaseResult(i, status, correct) ==
    [case |-> i, status |-> status, is_correct |-> correct]

\* Fault variant of the loop body: a case whose invocation raises is dropped,
\* nothing is appended for it.
PredictCase_DropsFailedCase ==
    /\ suite_pc = "predictions"
    /\ case_index < NumCases
    /\ LET i == case_index + 1 IN
       IF responses[i] = Raises
       THEN UNCHANGED <<prediction_results, correct_predictions>>
       ELSE /\ prediction_results' =
                 Append(prediction_results,
                        CaseResult(i, "success", responses[i] = ExpectedClasses[i]))
            /\ correct_predictions' =
                 IF responses[i] = ExpectedClasses[i]
                 THEN correct_predictions + 1 ELSE correct_predictions
    /\ case_index' = case_index + 1
    /\ UNCHANGED <<pipeline_vars, orch_vars, rollback_calls, lookup_vars,
                   responses, suite_pc, health_status,
                   prediction_accuracy, successful_requests, failed_requests,
                   request_times, overall_status, issues>>

\* test_endpoint_predictions, one pass of the loop of lines 180-232: the case
\* is invoked; an answer is compared with expected_class, an exception is
\* caught and recorded with status 'failed'.
PredictCase ==
    /\ suite_pc = "predictions"
    /\ case_index < NumCases
    /\ LET i == case_index + 1 IN
       IF responses[i] = Raises
       THEN /\ prediction_results' =
                 Append(prediction_results, CaseResult(i, "failed", FALSE))
            /\ UNCHANGED correct_predictions
       ELSE /\ prediction_results' =
                 Append(prediction_results,
                        CaseResult(i, "success", responses[i] = ExpectedClasses[i]))
            /\ correct_predictions' =
                 IF responses[i] = ExpectedClasses[i]
                 THEN correct_predictions + 1 ELSE correct_predictions
    /\ case_index' = case_index + 1
    /\ UNCHANGED <<pipeline_vars, orch_vars, rollback_calls, lookup_vars,
                   responses, suite_pc, health_status,
                   prediction_accuracy, successful_requests, failed_requests,
                   request_times, overall_status, issues>>

\* test_endpoint_predictions lines 234-256: the loop is over, the accuracy is
\* correct_predictions / total_predictions with total_predictions the
\* number of reference cases.
PredictSummary ==
    /\ suite_pc = "predictions"
    /\ case_index = NumCases
    /\ prediction_accuracy' = Accuracy(correct_predictions, NumCases)
    /\ suite_pc' = "performance"
    /\ UNCHANGED <<pipeline_vars, orch_vars, rollback_calls, lookup_vars,
                   responses, health_status, case_index,
                   prediction_results, correct_predictions, successful_requests,
                   failed_requests, request_times, overall_status, issues>>

\* Fault variant of the loop body: a request that raises ends the loop.
LoadRequest_AbortsOnFailure ==
    /\ suite_pc = "performance"
    /\ successful_requests + failed_requests < MaxRequests
    /\ \/ \E t \in RequestLatencies :
            /\ endpoints[TestedEndpoint] = "InService"
            /\ request_times' = Append(request_times, t)
            /\ successful_requests' = successful_requests + 1
            /\ UNCHANGED <<failed_requests, suite_pc>>
       \/ /\ failed_requests' = failed_requests + 1
          /\ suite_pc' = "verdict"
          /\ UNCHANGED <<request_times, successful_requests>>
    /\ UNCHANGED <<pipeline_vars, orch_vars, rollback_calls, lookup_vars,
                   responses, health_status,
                   case_index, prediction_results, correct_predictions,
                   prediction_accuracy, overall_status, issues>>

\* test_endpoint_performance, one pass of the loop of lines 286-306: a
\* request that answers adds its time, one that raises adds a failure; only
\* an endpoint that is InService answers.  Every pass takes at least the
\* 0.1 s of line 306, so at most MaxRequests passes start before the deadline.
LoadRequest ==
    /\ suite_pc = "performance"
    /\ successful_requests + failed_requests < MaxRequests
    /\ \/ \E t \in RequestLatencies :
            /\ endpoints[TestedEndpoint] = "InService"
            /\ request_times' = Append(request_times, t)
            /\ successful_requests' = successful_requests + 1
            /\ UNCHANGED failed_requests
       \/ /\ failed_requests' = failed_requests + 1
          /\ UNCHANGED <<request_times, successful_requests>>
    /\ UNCHANGED <<pipeline_vars, orch_vars, rollback_calls, lookup_vars,
                   responses, suite_pc, health_status,
                   case_index, prediction_results, correct_predictions,
                   prediction_accuracy, overall_status, issues>>

\* The deadline of line 286 has passed (the first pass starts before it).
LoadDeadline ==
    /\ suite_pc = "performance"
    /\ successful_requests + failed_requests > 0
    /\ suite_pc' = "verdict"
    /\ UNCHANGED <<pipeline_vars, orch_vars, rollback_calls, lookup_vars,
                   responses, health_status, case_index,
                   prediction_results, correct_predictions, prediction_accuracy,
                   successful_requests, failed_requests, request_times,
                   overall_status, issues>>

\* run_comprehensive_tests lines 372-427: the overall status and the issues
\* out of the three results; the results are returned.
DetermineVerdict ==
    /\ suite_pc = "verdict"
    /\ overall_status' =
         OverallStatus(health_status, prediction_accuracy,
                       SuccessRate(successful_requests, failed_requests),
                       AvgLatency(request_times))
    /\ issues' =
         Issues(health_status, prediction_accuracy,
                SuccessRate(successful_requests, failed_requests),
                AvgLatency(request_times))
    /\ suite_pc' = "done"
    /\ UNCHANGED <<pipeline_vars, orch_vars, rollback_calls, lookup_vars,
                   responses, health_status, case_index,
                   prediction_results, correct_predictions, prediction_accuracy,
                   successful_requests, failed_requests, request_times>>

NextSuite ==
    \/ TestEndpointHealth
    \/ PredictCase
    \/ PredictSummary
    \/ LoadRequest
    \/ LoadDeadline
    \/ DetermineVerdict

SpecSuite == InitSuite /\ [][NextSuite]_vars

\* run_comprehensive_tests is one sequential thread: a step that can be taken
\* is taken (every remote call returns or raises, time.sleep returns).
SpecSuiteFair == SpecSuite /\ WF_vars(NextSuite)

\* ------------------------------------------------------------- concurrent runs
\* Several run_pipeline.py processes reach deploy_model for the same model
\* family; each has its own DeploymentPipeline, all talk to one service.
InitConcurrent ==
    /\ cls_target = One
    /\ cls_min = One
    /\ cfg_target = cls_target
    /\ cfg_min = cls_min
    /\ endpoints \in {eps \in [EndpointNames -> {"absent", "InService"}] :
                        \A e \in EndpointNames : e > 1 => eps[e] = "absent"}
    /\ now = 2
    /\ CallerIdle
    /\ SuiteIdle
    /\ OrchIdle
    /\ NoRollbackCalls
    /\ NoLookup

\* deploy_model lines 170-201 in process p: the endpoint name out of the
\* clock, describe_training_job and the model object; a fault goes to the
\* handler.
OrchEnter(p) ==
    /\ orch_pc[p] = "idle"
    /\ orch_endpoint_name' = [orch_endpoint_name EXCEPT ![p] = now]
    /\ \E fault \in BOOLEAN :
         orch_pc' = [orch_pc EXCEPT ![p] = IF fault THEN "failed" ELSE "snapshot"]
    /\ UNCHANGED <<pipeline_vars, suite_vars, rollback_calls, lookup_vars, orch_previous_endpoint,
                   orch_current_endpoint>>

\* deploy_model lines 203-204 in process p.
OrchSnapshot(p) ==
    /\ orch_pc[p] = "snapshot"
    /\ \E fault \in BOOLEAN :
         orch_previous_endpoint' =
             [orch_previous_endpoint EXCEPT
                ![p] = IF fault THEN None ELSE GetCurrentProductionEndpoint(endpoints)]
    /\ orch_pc' = [orch_pc EXCEPT ![p] = "provision"]
    /\ UNCHANGED <<pipeline_vars, suite_vars, rollback_calls, lookup_vars, orch_endpoint_name,
                   orch_current_endpoint>>

\* deploy_model lines 206-213 in process p: model.deploy on the shared service.
OrchProvision(p) ==
    /\ orch_pc[p] = "provision"
    /\ IF endpoints[orch_endpoint_name[p]] # "absent"
       THEN /\ orch_pc' = [orch_pc EXCEPT ![p] = "failed"]
            /\ UNCHANGED endpoints
       ELSE \/ /\ endpoints' = [endpoints EXCEPT ![orch_endpoint_name[p]] = "InService"]
               /\ orch_pc' = [orch_pc EXCEPT ![p] = "commit"]
            \/ /\ endpoints' = [endpoints EXCEPT ![orch_endpoint_name[p]] = "Failed"]
               /\ orch_pc' = [orch_pc EXCEPT ![p] = "failed"]
    /\ UNCHANGED <<config_vars, cli_vars, now, instance_vars, gate_vars, run_vars,
                   suite_vars, rollback_calls, lookup_vars, orch_endpoint_name,
                   orch_previous_endpoint,
                   orch_current_endpoint>>

\* deploy_model lines 215-244 in process p: the endpoint test, whose result
\* is not inspected, and the assignment of current_endpoint.
OrchCommit(p) ==
    /\ orch_pc[p] = "commit"
    /\ orch_current_endpoint' =
         [orch_current_endpoint EXCEPT ![p] = orch_endpoint_name[p]]
    /\ orch_pc' = [orch_pc EXCEPT ![p] = "done"]
    /\ UNCHANGED <<pipeline_vars, suite_vars, rollback_calls, lookup_vars, orch_endpoint_name,
                   orch_previous_endpoint>>

\* deploy_model lines 246-267 in process p: the handler; rollback only
\* queries the service.
OrchFailed(p) ==
    /\ orch_pc[p] = "failed"
    /\ orch_pc' = [orch_pc EXCEPT ![p] = "done"]
    /\ UNCHANGED <<pipeline_vars, suite_vars, rollback_calls, lookup_vars, orch_endpoint_name,
                   orch_previous_endpoint, orch_current_endpoint>>

\* The wall clock moves on to the next second.
ClockTick ==
    /\ now < MaxClock
    /\ now' = now + 1
    /\ UNCHANGED <<config_vars, cli_vars, endpoints, instance_vars, gate_vars,
                   run_vars, suite_vars, orch_vars, rollback_calls, lookup_vars>>

NextConcurrent ==
    \/ \E p \in Orchestrators : OrchEnter(p)
    \/ \E p \in Orchestrators : OrchSnapshot(p)
    \/ \E p \in Orchestrators : OrchProvision(p)
    \/ \E p \in Orchestrators : OrchCommit(p)
    \/ \E p \in Orchestrators : OrchFailed(p)
    \/ ClockTick

SpecConcurrent == InitConcurrent /\ [][NextConcurrent]_vars

\* The verdict of the candidate's validation inside deploy_model is the
\* status that _test_endpoint returned.
ValidationPassed == test_status = "success"
ValidationFailed == test_status = "failed"
\* ------------------------------------------------------------- waiting for the endpoint
\* model.deploy(..., wait=True) of deploy_model lines 208-213 in its two
\* parts: the creation request, and the wait for the endpoint to leave the
\* status Creating.  The wait polls the service and has no limit of its own;
\* deploy_model sets none.
InitWaiting ==
    /\ Init
    /\ mode = "library"
    /\ cls_target = One
    /\ auto_deploy

\* The creation request of model.deploy: a name that is taken is refused, a
\* request may fail, an accepted request leaves the endpoint Creating.
CreateEndpoint ==
    /\ dp_pc = "provision"
    /\ provisioned' = provisioned + 1
    /\ IF endpoints[endpoint_name] # "absent"
       THEN /\ dp_pc' = "failed"
            /\ UNCHANGED endpoints
       ELSE \/ /\ endpoints' = [endpoints EXCEPT ![endpoint_name] = "Creating"]
               /\ dp_pc' = "waiting"
            \/ /\ UNCHANGED endpoints
               /\ dp_pc' = "failed"
    /\ UNCHANGED <<config_vars, cli_vars, now, instance_vars, gate_vars, runs,
                   training_job_name, endpoint_name, test_status, deploy_status,
                   rollback_results, pipeline_status, skip_reason, notifications,
                   gate_evaluated, snapshot_taken, pointer_at_start, pointer_writes>>
    /\ UNCHANGED <<suite_vars, orch_vars, rollback_calls, lookup_vars>>

\* The wait of model.deploy is over once the endpoint is no longer Creating:
\* it returns for InService and raises for any other status.
WaitForEndpoint ==
    /\ dp_pc = "waiting"
    /\ endpoints[endpoint_name] # "Creating"
    /\ dp_pc' = IF endpoints[endpoint_name] = "InService" THEN "test" ELSE "failed"
    /\ UNCHANGED <<config_vars, cli_vars, remote_vars, instance_vars, gate_vars,
                   runs, training_job_name, endpoint_name, provisioned,
                   test_status, deploy_status, rollback_results, pipeline_status,
                   skip_reason, notifications, gate_evaluated, snapshot_taken,
                   pointer_at_start, pointer_writes>>
    /\ UNCHANGED <<suite_vars, orch_vars, rollback_calls, lookup_vars>>

\* A poll of the wait raises (a fault of describe_endpoint): model.deploy
\* raises into the handler of line 246.
WaitInterrupted ==
    /\ dp_pc = "waiting"
    /\ dp_pc' = "failed"
    /\ UNCHANGED <<config_vars, cli_vars, remote_vars, instance_vars, gate_vars,
                   runs, training_job_name, endpoint_name, provisioned,
                   test_status, deploy_status, rollback_results, pipeline_status,
                   skip_reason, notifications, gate_evaluated, snapshot_taken,
                   pointer_at_start, pointer_writes>>
    /\ UNCHANGED <<suite_vars, orch_vars, rollback_calls, lookup_vars>>

\* The service ends the creation of an endpoint, with either result.
CreationEnds ==
    /\ \E e \in EndpointNames, st \in {"InService", "Failed"} :
         /\ endpoints[e] = "Creating"
         /\ endpoints' = [endpoints EXCEPT ![e] = st]
    /\ UNCHANGED <<config_vars, cli_vars, now, instance_vars, gate_vars, run_vars>>
    /\ UNCHANGED <<suite_vars, orch_vars, rollback_calls, lookup_vars>>

\* The statements of one run_deployment_pipeline call.
RunStep ==
    \/ FindJob
    \/ CheckDeploymentCriteria
    \/ Decide
    \/ DescribeJob
    \/ Snapshot
    \/ CreateEndpoint
    \/ WaitForEndpoint
    \/ TestEndpoint
    \/ Commit
    \/ DeployFailed
    \/ Compile

NextWaiting ==
    \/ LibraryRun
    \/ RunStep
    \/ WaitInterrupted
    \/ CreationEnds
    \/ Tick
    \/ EndpointDegrades

\* The run is one sequential thread: a statement that can be executed is
\* executed.  Nothing is assumed of the service or of the caller.
SpecWaiting == InitWaiting /\ [][NextWaiting]_vars /\ WF_vars(RunStep)

\* ------------------------------------------------------------- properties
\* ------------------------------------------------------------- rollback invoked again
\* A program that holds a DeploymentPipeline instance invokes
\* _rollback_deployment on it after its runs, up to MaxRollbackCalls times in
\* a row; the instance fields are those the runs have left.
InitRollback ==
    /\ Init
    /\ mode = "library"
    /\ cls_target = One
    /\ auto_deploy

\* The record of one invocation: the endpoints of the service and whether
\* the service was out of reach when it was made, the dict that was returned
\* and the two instance fields after the return.
RollbackCall(fault, results, current, previous) ==
    [remote |-> endpoints, fault |-> fault, results |-> results,
     current |-> current, previous |-> previous]

\* Fault variant of the routine: the snapshot is cleared once it was used.
InvokeRollback_ConsumesSnapshot ==
    /\ mode = "library"
    /\ dp_pc = "done"
    /\ Len(rollback_calls) < MaxRollbackCalls
    /\ previous_endpoint' = None
    /\ \E fault \in BOOLEAN :
         rollback_calls' =
             Append(rollback_calls,
                    RollbackCall(fault,
                                 RollbackDeployment(previous_endpoint, fault),
                                 current_endpoint, previous_endpoint'))
    /\ UNCHANGED <<config_vars, cli_vars, remote_vars, current_endpoint,
                   gate_vars, run_vars, suite_vars, orch_vars, lookup_vars>>

\* One invocation of _rollback_deployment (lines 309-341): it reads
\* previous_endpoint, asks the service for it and returns a dict; it assigns
\* no field and changes nothing at the service.
InvokeRollback ==
    /\ mode = "library"
    /\ dp_pc = "done"
    /\ Len(rollback_calls) < MaxRollbackCalls
    /\ \E fault \in BOOLEAN :
         rollback_calls' =
             Append(rollback_calls,
                    RollbackCall(fault,
                                 RollbackDeployment(previous_endpoint, fault),
                                 current_endpoint, previous_endpoint))
    /\ UNCHANGED <<config_vars, cli_vars, remote_vars, instance_vars,
                   gate_vars, run_vars, suite_vars, orch_vars, lookup_vars>>

\* The runs of the program come before its invocations of the routine.
RunBeforeRollback ==
    /\ rollback_calls = <<>>
    /\ LibraryRun

NextRollback ==
    \/ RunBeforeRollback
    \/ FindJob
    \/ CheckDeploymentCriteria
    \/ Decide
    \/ DescribeJob
    \/ Snapshot
    \/ Provision
    \/ TestEndpoint
    \/ Commit
    \/ DeployFailed
    \/ Compile
    \/ Tick
    \/ EndpointDegrades
    \/ InvokeRollback

SpecRollback == InitRollback /\ [][NextRollback]_vars

\* ------------------------------------------------------------- the latest training job
\* A program calls get_latest_training_job on its own, as
\* run_deployment_pipeline does when it is given no job name (line 359).  The
\* answer of list_training_jobs, newest first and of at most MaxJobs jobs, or
\* its fault, is the input.
Listings(n) == UNION {[1..k -> JobRecords] : k \in 0..n}

InitLookup ==
    /\ cls_target = One
    /\ cls_min = One
    /\ cfg_target = cls_target
    /\ cfg_min = cls_min
    /\ endpoints = [e \in EndpointNames |-> "absent"]
    /\ now = 2
    /\ CallerIdle
    /\ SuiteIdle
    /\ OrchIdle
    /\ NoRollbackCalls
    /\ job_listing \in [fault : BOOLEAN, jobs : Listings(MaxJobs)]
    /\ latest_job = "unset"
    /\ final_metrics = <<>>

\* get_latest_training_job (lines 53-82): the two passes over the listing; a
\* fault of list_training_jobs is caught and None ("") is returned.
LookupLatestJob ==
    /\ latest_job = "unset"
    /\ latest_job' = IF job_listing.fault THEN ""
                     ELSE GetLatestTrainingJob(job_listing.jobs)
    /\ UNCHANGED <<pipeline_vars, suite_vars, orch_vars, rollback_calls,
                   job_listing, final_metrics>>

NextLookup == LookupLatestJob

SpecLookup == InitLookup /\ [][NextLookup]_vars

\* ------------------------------------------------------------- the reported metrics
\* Runs of run_deployment_pipeline on a training job whose reported metrics
\* are known: final_metrics is the dict that lines 103-106 build, a value of
\* Levels for each metric name the job reports.
MetricNames == {"accuracy", "validation_accuracy"}
MetricDicts == UNION {[names -> Levels] : names \in SUBSET MetricNames}

InitGate ==
    /\ cls_target \in Levels
    /\ cls_min \in Levels
    /\ ValidateThresholds(cls_target, cls_min) = "ok"
    /\ cfg_target = cls_target
    /\ cfg_min = cls_min
    /\ endpoints \in {eps \in [EndpointNames -> {"absent", "InService"}] :
                        \A e \in EndpointNames : e > 1 => eps[e] = "absent"}
    /\ now = 2
    /\ CallerIdle
    /\ SuiteIdle
    /\ OrchIdle
    /\ NoRollbackCalls
    /\ job_listing = [fault |-> FALSE, jobs |-> <<>>]
    /\ latest_job = "unset"
    /\ final_metrics \in MetricDicts

\* Line 109 on the dict: the accuracy that the gate compares.
ReportedAccuracy(metrics) ==
    MetricAccuracy("accuracy" \in DOMAIN metrics,
                   IF "accuracy" \in DOMAIN metrics THEN metrics["accuracy"] ELSE 0,
                   "validation_accuracy" \in DOMAIN metrics,
                   IF "validation_accuracy" \in DOMAIN metrics
                   THEN metrics["validation_accuracy"] ELSE 0)

\* check_deployment_criteria on the job with these metrics.
CheckReportedMetrics ==
    \E fault \in BOOLEAN : EvaluateCriteria(fault, ReportedAccuracy(final_metrics))

NextGate ==
    \/ LibraryRun
    \/ FindJob
    \/ CheckReportedMetrics
    \/ Decide
    \/ DescribeJob
    \/ Snapshot
    \/ Provision
    \/ TestEndpoint
    \/ Commit
    \/ DeployFailed
    \/ Compile

SpecGate == InitGate /\ [][NextGate]_vars

RunDone == dp_pc = "done"
RollbackInvoked == rollback_results # NoRollbackResults

\* C1: the production pointer (current_endpoint) is assigned the candidate
\* only if the candidate's validation in that run passed; a candidate whose
\* endpoint test failed is never made the production endpoint.
C1_PointerOnlyAfterPass ==
    (pointer_writes > 0 /\ current_endpoint = endpoint_name) => ValidationPassed

\* C2: when the candidate was provisioned, its validation failed and the
\* prior production endpoint of the snapshot is still serving, the run has
\* invoked rollback with that snapshot and ends rolled back: rollback
\* succeeded, deploy_model reports the failure and the production pointer is
\* not on the candidate.
C2_FailedValidationRollsBack ==
    (/\ RunDone
     /\ ValidationFailed
     /\ rollback_on_failure
     /\ snapshot_taken
     /\ previous_endpoint # None
     /\ endpoints[previous_endpoint] = "InService")
    => (/\ rollback_results.status = "success"
        /\ deploy_status = "failed"
        /\ current_endpoint # endpoint_name)

\* C3: over all runs of deploy_model, rollback is invoked if and only if
\* rollback_on_failure is enabled, a prior production snapshot exists and the
\* validation verdict of the candidate is Fail.  This is the half "it is
\* always invoked in that one circumstance".
C3_RollbackOnFailedValidation ==
    (/\ RunDone
     /\ deploy_status # "none"
     /\ rollback_on_failure
     /\ snapshot_taken
     /\ previous_endpoint # None
     /\ ValidationFailed)
    => RollbackInvoked

\* C4: with no prior production endpoint at the start of the run and a
\* failed validation, the outcome carries the rollback status
\* no_previous_endpoint, the candidate is not promoted and the production
\* pointer is still absent at the end of the run.
C4_NoPriorEndpointOutcome ==
    (/\ RunDone
     /\ ValidationFailed
     /\ snapshot_taken
     /\ previous_endpoint = None
     /\ pointer_at_start = None)
    => (/\ rollback_results.status = "no_previous_endpoint"
        /\ current_endpoint = None)

\* C5: when the gate decided to deploy, the candidate was provisioned and its
\* validation passed, the run ends promoted (deploy_model and the pipeline
\* both report success) with the production pointer on the candidate, and
\* the pointer is written exactly once in the run (never more in any run).
C5_PromotedOnPass ==
    /\ pointer_writes <= 1
    /\ (RunDone /\ ValidationPassed)
       => (/\ should_deploy
           /\ deploy_status = "success"
           /\ pipeline_status = "success"
           /\ current_endpoint = endpoint_name
           /\ endpoints[endpoint_name] # "absent"
           /\ pointer_writes = 1)

C5_Witness ==
    /\ RunDone
    /\ ValidationPassed
    /\ current_endpoint = endpoint_name
    /\ pointer_at_start # endpoint_name

\* The thresholds the spec calls valid, and its three verdicts.
ValidPair(target, minimum) == 0 <= minimum /\ minimum <= target /\ target <= One

SpecVerdict(acc, target, minimum) ==
    IF acc >= target THEN "Promote"
    ELSE IF acc < minimum THEN "Reject" ELSE "Hold"

C7_GateDeterministicAndPure ==
    [][/\ (dp_pc = "check" /\ dp_pc' = "decide")
          => (/\ UNCHANGED <<current_endpoint, previous_endpoint, endpoints>>
              /\ (/\ gate_level # "none"
                  /\ ~eval_error
                  /\ ~eval_error'
                  /\ accuracy' = accuracy
                  /\ cfg_target' = cfg_target
                  /\ cfg_min' = cfg_min)
                 => (should_deploy' = should_deploy /\ gate_level' = gate_level))
       /\ (cli_pc = "training" /\ cli_pc' # "training")
          => UNCHANGED <<current_endpoint, previous_endpoint, endpoints>>]_vars

\* The gate is evaluated a second time on the instance, after a run that
\* moved the production pointer.
C7_Witness ==
    /\ runs = 2
    /\ dp_pc = "decide"
    /\ gate_evaluated
    /\ ~eval_error
    /\ current_endpoint # None

\* C8: PipelineConfig.validate raises for every threshold pair with
\* target < minimum or with a threshold outside [0,1] (main then exits with
\* the configuration error) and returns True for every pair with
\* 0 <= minimum <= target <= 1.
C8_ValidateThresholds ==
    (mode # "library" /\ cli_pc # "start")
    => (/\ (\/ cls_target < cls_min
            \/ cls_target < 0 \/ cls_target > One
            \/ cls_min < 0 \/ cls_min > One)
           => exit_code = "config_error_1"
        /\ ValidPair(cls_target, cls_min) => exit_code # "config_error_1")

C8_Witness ==
    /\ cli_pc = "exit"
    /\ exit_code = "config_error_1"
    /\ 0 <= cls_target
    /\ cls_target < cls_min
    /\ cls_min <= One

\* C9: in every pipeline run started through the command line the thresholds
\* the gates use, overrides included, satisfy 0 <= minimum <= target <= 1: no
\* stage starts with any other combination.
C9_StagesUseValidThresholds ==
    (mode # "library" /\ stages_started # {})
    => ValidPair(cfg_target, cfg_min)

\* C10: when the gate's decision is not Promote, run_deployment_pipeline
\* provisions no endpoint, leaves the production pointer and the rollback
\* snapshot as they are and goes from the decision straight to its skipped
\* outcome, never into deploy_model.
C10_NoPromoteNoDeploy ==
    [][(gate_evaluated /\ ~should_deploy /\ dp_pc \in {"decide", "compile"})
       => (/\ UNCHANGED <<current_endpoint, previous_endpoint, endpoint_name,
                          provisioned, snapshot_taken, deploy_status>>
           /\ \A e \in EndpointNames :
                 endpoints[e] = "absent" => endpoints'[e] = "absent"
           /\ dp_pc' \in {"decide", "compile", "done"}
           /\ (dp_pc = "decide" /\ dp_pc' # "decide")
              => (/\ dp_pc' = "compile"
                  /\ notifications' = <<"skipped">>
                  /\ skip_reason' = "Deployment criteria not met")
           /\ dp_pc' = "done"
              => (/\ pipeline_status' = "success"
                  /\ deploy_status' = "none"
                  /\ provisioned' = 0
                  /\ notifications' = <<"skipped">>))]_vars

\* A Hold and a Reject that ended skipped.
C10_Witness ==
    /\ RunDone
    /\ gate_evaluated
    /\ ~should_deploy
    /\ ~eval_error
    /\ gate_level = "warning"
    /\ auto_deploy
    /\ notifications = <<"skipped">>
    /\ provisioned = 0

\* The run's call of model.deploy raised: provisioning was started and the
\* endpoint test was never reached.
ProvisioningFailed ==
    /\ provisioned > 0
    /\ test_status = "none"
    /\ deploy_status = "failed"

\* C11: when provisioning of the candidate fails, the production pointer has
\* the same value after the run as before it (it is not written at all), and
\* rollback is invoked only if the snapshot of this run recorded a prior
\* production endpoint.
C11_ProvisioningFailureLeavesPointer ==
    (RunDone /\ ProvisioningFailed)
    => (/\ current_endpoint = pointer_at_start
        /\ pointer_writes = 0
        /\ RollbackInvoked
           => (/\ snapshot_taken
               /\ previous_endpoint # None
               /\ rollback_on_failure))

\* Provisioning fails in a run that started with a production pointer, and
\* rollback was invoked on the snapshot.
C11_Witness ==
    /\ RunDone
    /\ ProvisioningFailed
    /\ pointer_at_start # None
    /\ RollbackInvoked
    /\ previous_endpoint # None

\* C12: in every reachable state at most one serving endpoint of the model
\* family qualifies as the production endpoint for
\* get_current_production_endpoint (InService, name with the prefix).
C12_AtMostOneProductionEndpoint ==
    Cardinality(InServiceNames(endpoints)) <= 1

\* C17: _rollback_deployment reports an unhealthy prior endpoint and a fault
\* of the re-query with different statuses: the status 'failed' is returned
\* only when describe_endpoint itself raised, and a prior endpoint that
\* answered but is not InService gets a status of its own.
C17_RollbackStatusesDistinct ==
    (RollbackInvoked /\ rollback_results.status = "failed")
    => rollback_results.detail = "error"

\* The outcomes the spec calls Errored or Rejected/held with no promotion, at
\* the end of main(): the deployment pipeline failed, deploy_model failed,
\* the tests ended in error, or a gate refused the model.
StageErrored ==
    \/ pipeline_status = "failed"
    \/ deploy_status = "failed"
    \/ testing_status = "error"

NotPromoted ==
    \/ train_should_deploy = "no"
    \/ (gate_evaluated /\ ~should_deploy)

\* C18: the command line process exits with code 0 only on overall success:
\* when a stage ended Errored or the model was rejected or held with no
\* promotion, the exit code is not 0.
C18_ExitZeroOnlyOnSuccess ==
    (mode # "library" /\ exit_code = "success_0")
    => (~StageErrored /\ ~NotPromoted)

\* C19: whenever rollback was attempted and did not succeed, the result of
\* the deployment run carries the rollback result and the run's final status
\* (pipeline_status) is an error status, never 'success'.
C19_RollbackFailureSurfaces ==
    (RunDone /\ RollbackInvoked /\ rollback_results.status # "success")
    => (deploy_status = "failed" /\ pipeline_status # "success")

\* C20: the snapshot is taken before provisioning starts, so whenever
\* provisioning has started the snapshot of this run exists, and the snapshot
\* step leaves in the rollback target the endpoint that is production at
\* that moment.
C20_SnapshotBeforeProvisioning ==
    [][/\ provisioned' > 0 => snapshot_taken'
       /\ (dp_pc = "snapshot" /\ dp_pc' = "provision")
          => previous_endpoint' = GetCurrentProductionEndpoint(endpoints)]_vars

\* Process p is in the deploying step: its snapshot is taken and its
\* production pointer is not yet written.
Deploying(p) == orch_pc[p] \in {"provision", "commit"}

\* C13: two orchestrator runs for the same model family are never both in
\* the deploying step at the same time.
C13_DeployingIsExclusive ==
    \A p \in Orchestrators, q \in Orchestrators :
        (p # q /\ Deploying(p)) => ~Deploying(q)

\* The suite has returned its results.
SuiteDone == suite_pc = "done"

\* C14: whenever the health check is not healthy or the functional accuracy
\* is below the minimum threshold, the overall verdict of the suite is
\* 'failed', whatever the load test found.
C14_VerdictIsWorstSeverity ==
    (/\ SuiteDone
     /\ \/ health_status # "healthy"
        \/ FracLess(prediction_accuracy, MinimumAccuracy))
    => overall_status = "failed"

\* The reference cases that were answered with the expected class.
MatchingCases == {i \in 1..NumCases : responses[i] = ExpectedClasses[i]}

\* C15: the accuracy of the prediction test is (cases whose predicted class
\* equals the expected class) / (all reference cases); a case whose
\* invocation raises is recorded with status 'failed', stays in the
\* denominator and does not stop the cases after it, so the results hold
\* exactly one entry per reference case, in order.
C15_FunctionalAccuracyExact ==
    /\ Len(prediction_results) = case_index
    /\ \A i \in 1..Len(prediction_results) :
          /\ prediction_results[i].case = i
          /\ prediction_results[i].status = "failed" <=> responses[i] = Raises
          /\ prediction_results[i].is_correct <=> i \in MatchingCases
    /\ suite_pc \in {"performance", "verdict", "done"}
       => (/\ Len(prediction_results) = NumCases
           /\ prediction_accuracy.num = Cardinality(MatchingCases)
           /\ prediction_accuracy.den = NumCases)

\* The first case raised, a later one was answered correctly, and the
\* accuracy was computed.
C15_Witness ==
    /\ suite_pc = "performance"
    /\ responses[1] = Raises
    /\ responses[NumCases] = ExpectedClasses[NumCases]
    /\ prediction_accuracy.num > 0
    /\ prediction_accuracy.num < NumCases

\* C16: when every request of the load test failed, the suite reports a
\* success rate of 0 and the overall verdict 'failed'.
C16_TotalLoadFailureFails ==
    (SuiteDone /\ successful_requests = 0 /\ failed_requests > 0)
    => (/\ SuccessRate(successful_requests, failed_requests).num = 0
        /\ overall_status = "failed")

\* C25: a remote fault while the training job or its metrics are read during
\* the evaluation ends the run as errored, with the fault as the reason and
\* not with the reason 'Deployment criteria not met'.
C25_EvaluationFaultEndsErrored ==
    (RunDone /\ gate_evaluated /\ eval_error)
        => (pipeline_status = "failed"
            /\ skip_reason # "Deployment criteria not met")

\* C26: the provisioning call is made at most once per run and is never
\* retried, and an endpoint comes into existence only by that one call: it is
\* the endpoint of the run, created by the run's first provisioning call.
C26_ProvisioningNeverRetried ==
    [][/\ provisioned' <= 1
       /\ \A e \in EndpointNames :
            (endpoints[e] = "absent" /\ endpoints'[e] # "absent")
                => (e = endpoint_name /\ provisioned = 0 /\ provisioned' = 1)]_vars

C26_Witness ==
    /\ RunDone
    /\ provisioned = 1
    /\ deploy_status = "failed"
    /\ endpoints[endpoint_name] = "absent"

ExistingEndpoints == {e \in EndpointNames : endpoints[e] # "absent"}

\* C27: the handler of a failed deployment, the rollback routine included,
\* deletes nothing: the step leaves the set of existing endpoints as it was,
\* the endpoint of the failed candidate included.
C27_RollbackKeepsCandidate ==
    [][(dp_pc = "failed" /\ dp_pc' = "compile")
          => ExistingEndpoints' = ExistingEndpoints]_vars

C27_Witness ==
    /\ dp_pc = "compile"
    /\ deploy_status = "failed"
    /\ RollbackInvoked
    /\ provisioned = 1
    /\ previous_endpoint # endpoint_name
    /\ endpoints[endpoint_name] = "Failed"

\* C30: the rollback of a run goes against the snapshot that this run took:
\* whenever the rollback routine was invoked in a run, the run had taken its
\* snapshot before.
C30_RollbackTargetIsOwnSnapshot ==
    RollbackInvoked => snapshot_taken

\* C21: the verdict of the suite follows the policy: Fail if the endpoint is
\* not healthy or the functional accuracy is below the minimum; otherwise
\* Warn if the load success rate is below 0.95 or the average latency is
\* above 1000 ms; otherwise Pass.  Pass is returned exactly when the list of
\* issues is empty, and the list has one line per violated condition in the
\* order health, accuracy, success rate, latency.
PolicyViolated ==
    <<health_status # "healthy",
      FracLess(prediction_accuracy, MinimumAccuracy),
      FracLess(SuccessRate(successful_requests, failed_requests), MinSuccessRate),
      FracLess([num |-> MaxAvgLatencyMs, den |-> 1], AvgLatency(request_times))>>

PolicyVerdict ==
    IF PolicyViolated[1] \/ PolicyViolated[2] THEN "failed"
    ELSE IF PolicyViolated[3] \/ PolicyViolated[4] THEN "warning"
    ELSE "passed"

PolicyLines ==
    <<"Endpoint health check failed",
      "Prediction accuracy below minimum threshold",
      "Performance test success rate below 95%",
      "Average latency above 1 second">>

PolicyLine(i) == IF PolicyViolated[i] THEN <<PolicyLines[i]>> ELSE <<>>

C21_VerdictFollowsPolicy ==
    SuiteDone =>
        /\ overall_status = PolicyVerdict
        /\ (overall_status = "passed" <=> issues = <<>>)
        /\ issues = PolicyLine(1) \o PolicyLine(2) \o PolicyLine(3) \o PolicyLine(4)

\* C22: the health check answers healthy only for an endpoint whose status
\* is InService; with any other status, or after a fault of the query, it
\* returns a result that is not healthy, and the verdict of the suite is then
\* Fail.
C22_UnhealthyMeansFail ==
    /\ (health_status = "healthy" => endpoints[TestedEndpoint] = "InService")
    /\ ((health_status # "none" /\ endpoints[TestedEndpoint] # "InService")
            => health_status \in {"unhealthy", "error"})
    /\ ((SuiteDone /\ health_status # "healthy") => overall_status = "failed")

\* C23: the load check runs until its deadline and not for a number of
\* requests: every pass of the loop counts one request, as answered or as
\* failed; a failed request adds one to the failure counter and the loop goes
\* on; once the deadline has ended the loop no request is made and the
\* counters stay; and the loop always ends.
C23_LoadCheckBoundedByDeadline ==
    /\ [][/\ (suite_pc = "performance" /\ suite_pc' = "performance")
               => /\ successful_requests' + failed_requests'
                       = successful_requests + failed_requests + 1
                  /\ failed_requests' \in {failed_requests, failed_requests + 1}
                  /\ Len(request_times') = successful_requests'
          /\ (suite_pc = "performance" /\ failed_requests' # failed_requests)
               => suite_pc' = "performance"
          /\ (suite_pc = "performance" /\ suite_pc' # "performance")
               => /\ suite_pc' = "verdict"
                  /\ UNCHANGED <<successful_requests, failed_requests,
                                 request_times>>
          /\ suite_pc \in {"verdict", "done"}
               => UNCHANGED <<successful_requests, failed_requests,
                              request_times>>]_vars
    /\ (suite_pc = "performance" ~> suite_pc = "verdict")

C23_Witness ==
    /\ suite_pc = "verdict"
    /\ failed_requests >= 1
    /\ successful_requests >= 1
    /\ successful_requests + failed_requests < MaxRequests

\* The kind of terminal event that the outcome of a finished run calls for.
OutcomeKind ==
    IF pipeline_status = "failed" \/ eval_error THEN "error"
    ELSE IF deploy_status = "success" THEN "deployment_success"
    ELSE IF deploy_status = "failed" THEN "deployment_failure"
    ELSE "skipped"

\* C28: every finished run has handed exactly one terminal event to the
\* notification manager, of the kind of its outcome: success for a promoted
\* candidate, failure for a failed deployment, skipped for a model that was
\* held or rejected or when auto-deploy is disabled, error for a fault.
C28_ExactlyOneTerminalEvent ==
    RunDone => notifications = <<OutcomeKind>>

\* C24: every deployment run reaches a terminal state, also when the
\* candidate never reaches a serving state: a run that has started is
\* eventually done.
C24_RunReachesTerminalState ==
    (dp_pc \notin {"idle", "done"}) ~> (dp_pc = "done")

\* C29: rollback is idempotent: of two invocations in a row, the second
\* leaves the production pointer and the snapshot as the first left them,
\* and when the endpoints of the service and its reachability are those of
\* the first, the second returns the outcome of the first.
C29_RollbackIdempotent ==
    \A i \in 1..Len(rollback_calls) - 1 :
        LET first == rollback_calls[i]
            second == rollback_calls[i + 1] IN
        /\ second.current = first.current
        /\ second.previous = first.previous
        /\ (second.remote = first.remote /\ second.fault = first.fault)
               => second.results = first.results

C29_Witness ==
    /\ Len(rollback_calls) >= 2
    /\ rollback_calls[2].remote = rollback_calls[1].remote
    /\ ~rollback_calls[1].fault
    /\ ~rollback_calls[2].fault
    /\ rollback_calls[2].results.status = "success"
    /\ rollback_calls[2].current # rollback_calls[2].previous

\* C31: with auto-deploy disabled a run never enters deploy_model, whatever
\* the gate decided: it provisions nothing and leaves the production
\* pointer alone, and it ends skipped, with the reason 'Auto-deploy disabled'
\* when the gate decided Promote.  When the gate did not decide Promote the
\* reason is 'Deployment criteria not met', with the switch on or off.
C31_AutoDeployDisabledSkips ==
    /\ (gate_evaluated /\ ~auto_deploy)
         => /\ provisioned = 0
            /\ endpoint_name = None
            /\ deploy_status = "none"
            /\ current_endpoint = pointer_at_start
            /\ pointer_writes = 0
    /\ (RunDone /\ gate_evaluated /\ ~auto_deploy /\ should_deploy)
         => /\ skip_reason = "Auto-deploy disabled"
            /\ notifications = <<"skipped">>
    /\ (RunDone /\ gate_evaluated /\ ~should_deploy)
         => /\ skip_reason = "Deployment criteria not met"
            /\ notifications = <<"skipped">>

C31_Witness ==
    /\ RunDone
    /\ gate_evaluated
    /\ ~auto_deploy
    /\ should_deploy
    /\ skip_reason = "Auto-deploy disabled"
    /\ InServiceNames(endpoints) # {}

\* A remote call of the finished run raised: the read of the training job in
\* the evaluation, or a statement of deploy_model.
RunFaulted == eval_error \/ deploy_status = "failed"

\* The training pipeline raised before it had a decision.
TrainingFaulted ==
    /\ "training" \in stages_started
    /\ train_should_deploy = "not_run"
    /\ cli_pc # "training"

\* C32: run_deployment_pipeline returns a result for every fault inside it:
\* a run in which a call raised ends with pipeline_status 'failed' and the
\* one error notification; a fault of run_training_pipeline is raised again
\* to main, which starts no further stage and exits with 1.
C32_FaultsBecomeFailedResults ==
    /\ (RunDone /\ (RunFaulted \/ pipeline_status = "failed"))
         => /\ pipeline_status = "failed"
            /\ notifications = <<"error">>
    /\ TrainingFaulted
         => /\ exit_code = "failed_1"
            /\ stages_started = {"training"}
            /\ dp_pc = "idle"

\* The positions of the listing with a Completed job, and of those the ones
\* whose name carries the model name prefix.
CompletedAt(jobs) == {i \in 1..Len(jobs) : jobs[i].status = "Completed"}
PrefixedAt(jobs) == {i \in CompletedAt(jobs) : HasPrefix(jobs[i].name)}
Newest(positions) == CHOOSE i \in positions : \A j \in positions : i <= j

\* C33: get_latest_training_job returns the newest Completed job of the
\* listing whose name carries the prefix when there is one, otherwise the
\* newest Completed job of any name, otherwise (no Completed job, or a fault
\* of the listing) None; what it returns is always a Completed job of the
\* listing.
C33_LatestCompletedJob ==
    latest_job # "unset" =>
        LET jobs == job_listing.jobs IN
        /\ latest_job =
             IF job_listing.fault THEN ""
             ELSE IF PrefixedAt(jobs) # {} THEN jobs[Newest(PrefixedAt(jobs))].name
             ELSE IF CompletedAt(jobs) # {} THEN jobs[Newest(CompletedAt(jobs))].name
             ELSE ""
        /\ latest_job # "" => \E i \in CompletedAt(jobs) : jobs[i].name = latest_job

\* The newest job carries the prefix and is not Completed, an older job of
\* another name is: the second pass finds it.
C33_Witness ==
    /\ latest_job = "other-job"
    /\ ~job_listing.fault
    /\ Len(job_listing.jobs) >= 2
    /\ HasPrefix(job_listing.jobs[1].name)
    /\ job_listing.jobs[1].status = "Failed"

\* C34: a training job that reports neither 'accuracy' nor
\* 'validation_accuracy' is evaluated with accuracy 0, so for a target above
\* 0 the gate does not decide Promote and the run provisions nothing; when
\* 'accuracy' is reported it is the value the gate uses, whether or not
\* 'validation_accuracy' is reported too.
C34_MissingMetricNeverPromotes ==
    (gate_evaluated /\ ~eval_error) =>
        /\ (DOMAIN final_metrics \cap MetricNames = {})
             => /\ accuracy = 0
                /\ cfg_target > 0
                     => (~should_deploy /\ provisioned = 0 /\ endpoint_name = None)
        /\ ("accuracy" \in DOMAIN final_metrics)
             => /\ accuracy = final_metrics["accuracy"]
                /\ should_deploy <=> final_metrics["accuracy"] >= cfg_target

C34_Witness ==
    /\ RunDone
    /\ gate_evaluated
    /\ ~eval_error
    /\ DOMAIN final_metrics = {}
    /\ cfg_target > 0
    /\ skip_reason = "Deployment criteria not met"

\* C35: in 'complete' mode run_deployment_pipeline is called only when the
\* training result says should_deploy; once called, an endpoint is provisioned
\* only when the gate of the deployment pipeline itself has decided to deploy;
\* and when the training result says no, no run of the deployment pipeline
\* starts, nothing is provisioned and the deployment result is 'skipped'.
C35_CompleteModeGatedTwice ==
    mode = "complete" =>
        /\ runs > 0 => train_should_deploy = "yes"
        /\ provisioned > 0 =>
              /\ train_should_deploy = "yes"
              /\ gate_evaluated
              /\ should_deploy
        /\ (train_should_deploy = "no" /\ cli_pc \in {"report", "testing", "exit"})
              => /\ runs = 0
                 /\ dp_pc = "idle"
                 /\ ~gate_evaluated
                 /\ provisioned = 0
                 /\ endpoint_name = None
                 /\ pipeline_status = "skipped"

\* The training result said deploy, the deployment pipeline ran, and its own
\* gate decided against deploying: nothing was provisioned.
C35_Witness ==
    /\ mode = "complete"
    /\ train_should_deploy = "yes"
    /\ RunDone
    /\ gate_evaluated
    /\ ~eval_error
    /\ ~should_deploy
    /\ provisioned = 0
    /\ skip_reason = "Deployment criteria not met"

\* C36: every run provisions its candidate under an endpoint name that no
\* existing endpoint carries and that no other run, started side by side or
\* within the same clock second, has built for its own candidate.
C36_CandidateNameIsFresh ==
    /\ \A p \in Orchestrators :
         orch_pc[p] = "provision" => endpoints[orch_endpoint_name[p]] = "absent"
    /\ \A p \in Orchestrators, q \in Orchestrators :
         (p # q /\ orch_pc[p] # "idle" /\ orch_pc[q] # "idle")
            => orch_endpoint_name[p] # orch_endpoint_name[q]

====
